---- MODULE Spec2Model ----
(***************************************************************************)
(* A model of the resilient GitHub API access layer:                       *)
(*   - CacheManager            (src/src/infrastructure/persistence/Cache.ts)*)
(*   - RESTClient.executeRequest   (src/unnamed/part_011)                  *)
(*   - GraphQLClient.executeQuery  (src/src/infrastructure/github/         *)
(*                                  GraphQLClient.ts)                      *)
(* Time is a discrete clock (Date.now()); sizes are bytes.                 *)
(***************************************************************************)
EXTENDS Integers, Sequences, FiniteSets, TLC

VARIABLES
    cache,      \* CacheManager.cache: the Map, as a sequence in insertion order
    now,        \* Date.now()
    options,    \* CacheManager.options
    hist,       \* what the last cache operation did (its inputs and result)
    client,     \* which request executor: RESTClient or GraphQLClient
    execOptions,\* the executor's options: maxRetries, retryDelay
    pc,         \* where executeRequest / executeQuery stands
    attempt,    \* the loop variable of the attempt loop
    script,     \* what the upstream answers to the 1st, 2nd, ... call of the request
    calls,      \* upstream calls issued by the current request
    delays,     \* the backoff delays slept by the current request
    outcome,    \* what the caller of the current request received
    rateLimitInfo, \* the executor's rate-limit snapshot
    waits,      \* the waitForRateLimit calls of the current request
    issued,     \* the times at which the current request's upstream calls were issued
    observed,   \* the quota information each answer of the current request carried
    batchQueue, \* GraphQLClient.batchQueue: the ids of the queued queries
    batchTimer, \* GraphQLClient.batchTimer: the handle it holds, or NoBatchTimer
    timers,     \* the timeouts that are armed: set, neither fired nor cleared
    inflight,   \* the processBatch calls that await their combined request
    requests,   \* the promises executeQuery returned, in the order it was invoked
    throttleOpen, \* less than the throttle interval has passed since the last invocation
    settled,    \* per query: how often its promise was resolved and rejected, and with what
    pgInput,    \* paginate: params.page, per_page, maxPages and the upstream's pages
    pgPage,     \* paginate: the local page
    pgAllData,  \* paginate: the local allData
    pgHasNextPage, \* paginate: the local hasNextPage
    pgReads,    \* paginate: the page numbers it has read, in order
    pgPc,       \* paginate: where the call stands
    pgResult,   \* paginate: what it returned
    bulkRequest,\* bulkOperation: operation.issueNumbers
    bulkChunk,  \* bulkOperation: the chunk being processed
    bulkPending,\* bulkOperation: the positions of the chunk's unsettled promises
    bulkResults,\* bulkOperation: the local results
    bulkPc,     \* bulkOperation: where the call stands
    restCalls,  \* RESTClient: the get / post calls made so far, in order
    restRequests, \* RESTClient: the promises executeRequest returned, in the order it was invoked
    restThrottleOpen, \* RESTClient: less than the throttle interval has passed since the last invocation
    store,      \* the upstream: per endpoint, how many writes it has applied
    acked,      \* per endpoint, the latest write a caller has seen complete
    setCalls,   \* CacheManager.set: the calls made so far, and where each stands
    setQueue,   \* CacheManager.set: the suspended calls, in the order they resume
    lockCalls,  \* FileSystemManager.withLock: the calls made so far
    locks       \* FileSystemManager.locks: per path, the call whose lock promise it holds

cacheVars == <<cache, now, options, hist>>

execVars == <<client, execOptions, pc, attempt, script, calls, delays, outcome,
              rateLimitInfo, waits, issued, observed>>

batchVars == <<batchQueue, batchTimer, timers, inflight, requests, throttleOpen, settled>>

pageVars == <<pgInput, pgPage, pgAllData, pgHasNextPage, pgReads, pgPc, pgResult>>

bulkVars == <<bulkRequest, bulkChunk, bulkPending, bulkResults, bulkPc>>

restVars == <<restCalls, restRequests, restThrottleOpen, store, acked>>

setVars == <<setCalls, setQueue>>

lockVars == <<lockCalls, locks>>

\* what the actions of one component leave alone
nonCacheVars == <<execVars, batchVars, pageVars, bulkVars, restVars, setVars, lockVars>>

nonExecVars == <<cacheVars, batchVars, pageVars, bulkVars, restVars, setVars, lockVars>>

nonBatchVars == <<cacheVars, execVars, pageVars, bulkVars, restVars, setVars, lockVars>>

nonPageVars == <<cacheVars, execVars, batchVars, bulkVars, restVars, setVars, lockVars>>

nonBulkVars == <<cacheVars, execVars, batchVars, pageVars, restVars, setVars, lockVars>>

\* the REST accessor works on the cache: its actions leave these alone
nonRestVars == <<execVars, batchVars, pageVars, bulkVars, setVars, lockVars>>

\* interleaved set calls work on the cache: their actions leave these alone
nonSetVars == <<execVars, batchVars, pageVars, bulkVars, restVars, lockVars>>

nonLockVars == <<cacheVars, execVars, batchVars, pageVars, bulkVars, restVars, setVars>>

vars == <<cache, now, options, hist,
          client, execOptions, pc, attempt, script, calls, delays, outcome,
          rateLimitInfo, waits, issued, observed,
          batchQueue, batchTimer, timers, inflight, requests, throttleOpen, settled,
          pgInput, pgPage, pgAllData, pgHasNextPage, pgReads, pgPc, pgResult,
          bulkRequest, bulkChunk, bulkPending, bulkResults, bulkPc,
          restCalls, restRequests, restThrottleOpen, store, acked,
          setCalls, setQueue, lockCalls, locks>>

-----------------------------------------------------------------------------
(* Bounds of the cache model *)

\* the clock stops here
MaxTime == 1

\* get hits per entry explored
MaxAccess == 1

\* get() returning null: no JSON text is empty
Null == <<>>

\* set() called without a ttl
NoTTL == 0 - 1

\* Cache keys, as the characters of the key string
Keys == { <<"i", "5">>, <<"i", "5", "0">>, <<"s", "i", "5">> }

\* Cached values, as the bytes of their JSON text
Values == { <<"1">>, <<"[", "1", "]">> }

\* The ttl argument of set(): absent, or a number of ticks
TTLInputs == { NoTTL, 0 }

\* The patterns given to invalidate(), as the characters of the pattern string
Patterns == { <<"i", "5">>, <<"i", "5", "0">>, <<"i", "*">>, <<"s", "*">> }

Policies == { "LRU", "LFU", "FIFO" }

\* The configurations explored: maxSize in entries, defaultTTL in ticks,
\* maxMemoryBytes for maxMemoryMB * 1024 * 1024
OptionSets ==
    [ maxSize : {1, 2}, defaultTTL : {1}, policy : Policies, maxMemoryBytes : {4} ]

-----------------------------------------------------------------------------
(* Helpers on sequences *)

Range(s) == { s[i] : i \in 1..Len(s) }

Max(a, b) == IF a >= b THEN a ELSE b

\* s without the elements at the positions in idx, order kept
RECURSIVE DropAt(_, _)
DropAt(s, idx) ==
    IF s = <<>> THEN <<>>
    ELSE LET n == Len(s)
             rest == DropAt(SubSeq(s, 1, n - 1), idx)
         IN IF n \in idx THEN rest ELSE Append(rest, s[n])

\* Map.get / Map.has
IndexOf(c, key) ==
    IF \E i \in 1..Len(c) : c[i].key = key
    THEN CHOOSE i \in 1..Len(c) : c[i].key = key
    ELSE 0

CacheKeys(c) == { c[i].key : i \in 1..Len(c) }

\* Map.delete
MapDelete(c, key) == DropAt(c, { i \in 1..Len(c) : c[i].key = key })

\* Map.set: an existing key keeps its place, a new key goes last
MapSet(c, entry) ==
    LET i == IndexOf(c, entry.key)
    IN IF i = 0 THEN Append(c, entry) ELSE [c EXCEPT ![i] = entry]

-----------------------------------------------------------------------------
(* CacheManager *)

\* estimateSize: the byte length of JSON.stringify(value)
estimateSize(value) == Len(value)

\* getMemoryUsageMB, in bytes
RECURSIVE getMemoryUsage(_)
getMemoryUsage(c) ==
    IF c = <<>> THEN 0 ELSE c[Len(c)].size + getMemoryUsage(SubSeq(c, 1, Len(c) - 1))

\* stats().totalKeys
totalKeys(c) == Len(c)

\* the sort key of evictEntries under each policy
RankBad(pol, e) ==
    CASE pol = "LRU" -> 0 - e.lastAccessed
      [] pol = "LFU" -> 0 - e.accessCount
      [] OTHER -> e.expiresAt - e.lastAccessed

Rank(pol, e) ==
    CASE pol = "LRU" -> e.lastAccessed
      [] pol = "LFU" -> e.accessCount
      [] OTHER -> e.expiresAt - e.lastAccessed

\* Array.prototype.sort with the comparator a - b: a stable ascending sort.
\* The result lists the positions of c in sorted order.
RECURSIVE SortedPositions(_, _, _)
SortedPositions(c, pol, n) ==
    IF n = 0 THEN <<>>
    ELSE LET prev == SortedPositions(c, pol, n - 1)
             \* n goes after every earlier position that ranks <= it
             k == Cardinality({ j \in 1..Len(prev) :
                                 Rank(pol, c[prev[j]]) <= Rank(pol, c[n]) })
         IN SubSeq(prev, 1, k) \o <<n>> \o SubSeq(prev, k + 1, Len(prev))

\* Math.max(1, Math.floor(this.cache.size * 0.1))
entriesToEvict(c) == Max(1, Len(c) \div 10)

\* the positions evictEntries deletes
EvictedPositions(c, pol) ==
    LET sorted == SortedPositions(c, pol, Len(c))
    IN { sorted[i] : i \in 1..(IF entriesToEvict(c) < Len(sorted)
                                 THEN entriesToEvict(c) ELSE Len(sorted)) }

\* one run of evictEntries: the entries it deletes and the map it leaves
EvictionRound(c, pol) ==
    LET idx == EvictedPositions(c, pol)
    IN [ evicted |-> { c[i] : i \in idx }, survivors |-> DropAt(c, idx) ]

evictEntries(c, pol) == EvictionRound(c, pol).survivors

\* set(), "Check memory limits"
NeedsMemoryEviction(c, opts, size) == getMemoryUsage(c) + size > opts.maxMemoryBytes

\* set(), "Check size limits"
NeedsSizeEvictionOffByOne(c, opts) == Len(c) > opts.maxSize

NeedsSizeEviction(c, opts) == Len(c) >= opts.maxSize

\* the map after the eviction rounds of one set()
AfterRounds(c, rounds) ==
    IF rounds = <<>> THEN c ELSE rounds[Len(rounds)].survivors

\* the eviction rounds of one set(): the memory check, then the size check
Rounds(c, opts, size) ==
    LET r1 == IF NeedsMemoryEviction(c, opts, size)
              THEN << EvictionRound(c, opts.policy) >>
              ELSE <<>>
        c1 == AfterRounds(c, r1)
        r2 == IF NeedsSizeEviction(c1, opts)
              THEN << EvictionRound(c1, opts.policy) >>
              ELSE <<>>
    IN r1 \o r2

NewEntry(key, value, ttl, opts, t) ==
    [ key |-> key,
      value |-> value,
      expiresAt |-> t + (IF ttl = NoTTL THEN opts.defaultTTL ELSE ttl),
      accessCount |-> 0,
      lastAccessed |-> t,
      size |-> estimateSize(value) ]

\* get(), "Check if expired"
GetExpiredNever(entry, t) == FALSE

GetExpired(entry, t) == t > entry.expiresAt

NoHist ==
    [ op |-> "none", key |-> <<>>, value |-> <<>>, ttl |-> NoTTL,
      pre |-> <<>>, result |-> Null, rounds |-> <<>>,
      repeat |-> FALSE, preTotal |-> 0, pattern |-> <<>>, preKeys |-> {} ]

CacheInit ==
    /\ cache = <<>>
    /\ now = 0
    /\ options \in OptionSets
    /\ hist = NoHist

\* the cache after set(key, value, ttl) at time t
SetResult(c, opts, key, value, ttl, t) ==
    MapSet(AfterRounds(c, Rounds(c, opts, estimateSize(value))),
           NewEntry(key, value, ttl, opts, t))

\* async set(key, value, ttl)
Set(key, value, ttl) ==
    LET rounds == Rounds(cache, options, estimateSize(value))
    IN /\ cache' = MapSet(AfterRounds(cache, rounds), NewEntry(key, value, ttl, options, now))
       /\ hist' = [ NoHist EXCEPT
                      !.op = "set", !.key = key, !.value = value, !.ttl = ttl,
                      !.rounds = rounds,
                      !.repeat = (hist.op = "set" /\ hist.key = key
                                  /\ hist.value = value /\ hist.ttl = ttl),
                      !.preTotal = totalKeys(cache) ]
       /\ UNCHANGED <<now, options, nonCacheVars>>

\* async warmup(entries): set() for each entry in turn
RECURSIVE WarmupResult(_, _, _, _)
WarmupResult(c, opts, entries, t) ==
    IF Len(entries) = 0 THEN c
    ELSE LET \* await this.set(key, value, ttl)
             next == SetResult(c, opts, entries[1].key, entries[1].value, entries[1].ttl, t)
         IN \* a set() leaves at least the entry it wrote
            IF totalKeys(next) = 0 THEN next
            ELSE WarmupResult(next, opts, Tail(entries), t)

\* async get(key)
Get(key) ==
    LET i == IndexOf(cache, key)
    IN /\ IF i = 0
          THEN /\ cache' = cache
               /\ hist' = [ NoHist EXCEPT !.op = "get", !.key = key ]
          ELSE IF GetExpired(cache[i], now)
          THEN /\ cache' = MapDelete(cache, key)
               /\ hist' = [ NoHist EXCEPT !.op = "get", !.key = key,
                                           !.pre = <<cache[i]>> ]
          ELSE /\ cache[i].accessCount < MaxAccess
               /\ cache' = [ cache EXCEPT ![i].accessCount = @ + 1,
                                          ![i].lastAccessed = now ]
               /\ hist' = [ NoHist EXCEPT !.op = "get", !.key = key,
                                           !.pre = <<cache[i]>>,
                                           !.result = cache[i].value ]
       /\ UNCHANGED <<now, options, nonCacheVars>>

\* pattern.replace(/\*/g, '.*'): the source text of the regular expression
RECURSIVE ReplaceStars(_)
ReplaceStars(pattern) ==
    IF pattern = <<>> THEN <<>>
    ELSE (IF Head(pattern) = "*" THEN <<".", "*">> ELSE <<Head(pattern)>>)
         \o ReplaceStars(Tail(pattern))

\* new RegExp(source): each character is an atom, starred when a * follows it
RECURSIVE RegExpAtoms(_)
RegExpAtoms(source) ==
    IF source = <<>> THEN <<>>
    ELSE IF Len(source) >= 2 /\ source[2] = "*"
         THEN <<[ch |-> source[1], star |-> TRUE]>> \o RegExpAtoms(SubSeq(source, 3, Len(source)))
         ELSE <<[ch |-> source[1], star |-> FALSE]>> \o RegExpAtoms(Tail(source))

\* one atom against one character: . matches any character
AtomMatches(ch, c) == ch = "." \/ ch = c

\* the atoms from position i on match the key from position j on
\* (no $ in the expression: the match may end anywhere)
RECURSIVE MatchHere(_, _, _, _)
MatchHere(atoms, i, key, j) ==
    IF i > Len(atoms) THEN TRUE
    ELSE IF atoms[i].star
         THEN \E k \in 0..(Len(key) - j + 1) :
                 /\ \A m \in j..(j + k - 1) : AtomMatches(atoms[i].ch, key[m])
                 /\ MatchHere(atoms, i + 1, key, j + k)
         ELSE /\ j <= Len(key)
              /\ AtomMatches(atoms[i].ch, key[j])
              /\ MatchHere(atoms, i + 1, key, j + 1)

\* regex.test(key): no ^ in the expression, so the match may start anywhere
RegexTest(pattern, key) ==
    \E start \in 1..(Len(key) + 1) :
        MatchHere(RegExpAtoms(ReplaceStars(pattern)), 1, key, start)

\* async invalidate(pattern)
Invalidate(pattern) ==
    /\ cache # <<>>
    /\ cache' = DropAt(cache, { i \in 1..Len(cache) : RegexTest(pattern, cache[i].key) })
    /\ hist' = [ NoHist EXCEPT !.op = "invalidate", !.pattern = pattern,
                                !.preKeys = CacheKeys(cache) ]
    /\ UNCHANGED <<now, options, nonCacheVars>>

\* cleanup(), run by the setInterval timer
Cleanup ==
    /\ cache' = DropAt(cache, { i \in 1..Len(cache) : now > cache[i].expiresAt })
    /\ hist' = [ NoHist EXCEPT !.op = "cleanup" ]
    /\ UNCHANGED <<now, options, nonCacheVars>>

\* async clear()
Clear ==
    /\ cache # <<>>
    /\ cache' = <<>>
    /\ hist' = [ NoHist EXCEPT !.op = "clear" ]
    /\ UNCHANGED <<now, options, nonCacheVars>>

\* the clock advances
Tick ==
    /\ now < MaxTime
    /\ now' = now + 1
    /\ hist' = NoHist
    /\ UNCHANGED <<cache, options, nonCacheVars>>

SetAny == \E key \in Keys, value \in Values, ttl \in TTLInputs : Set(key, value, ttl)

GetAny == \E key \in Keys : Get(key)

InvalidateAny == \E pattern \in Patterns : Invalidate(pattern)

CacheNext == SetAny \/ GetAny \/ InvalidateAny \/ Cleanup \/ Clear \/ Tick

-----------------------------------------------------------------------------
(* A cache filled by warmup(): enough entries for a round to evict several *)

Digit == <<"0", "1", "2", "3", "4", "5", "6", "7", "8", "9">>

\* the key of the n-th warmup entry: w01, w02, ...
WarmKey(n) == <<"w", Digit[(n \div 10) + 1], Digit[(n % 10) + 1]>>

\* warmup() is given as many entries as the cache holds
WarmList(opts) ==
    [ n \in 1..opts.maxSize |-> [key |-> WarmKey(n), value |-> <<"1">>, ttl |-> NoTTL] ]

\* the keys read and written after the warmup
WarmGetKeys == { WarmKey(1), WarmKey(2), WarmKey(3) }

WarmSetKeys == { <<"i", "5">> }

WarmOptionSets ==
    [ maxSize : {20}, defaultTTL : {1}, policy : Policies, maxMemoryBytes : {21} ]

WarmInit ==
    /\ options \in WarmOptionSets
    /\ now = 0
    /\ cache = WarmupResult(<<>>, options, WarmList(options), 0)
    /\ hist = NoHist

WarmSet == \E key \in WarmSetKeys, value \in Values, ttl \in TTLInputs : Set(key, value, ttl)

WarmGet == \E key \in WarmGetKeys : Get(key)

WarmNext == WarmSet \/ WarmGet \/ Cleanup \/ Tick

-----------------------------------------------------------------------------
(* The request executors: RESTClient.executeRequest, GraphQLClient.executeQuery *)

\* maxRetries explored: 0..MaxRetriesBound
MaxRetriesBound == 3

\* Math.random() * 1000: the jitter is below this
JitterRange == 1000

\* the jitter draws explored: the least and (to the millisecond) the greatest
JitterDraws == { 0, JitterRange - 1 }

\* options.retryDelay explored, in ms
RetryDelays == { 500, 1000 }

Clients == { "REST", "GraphQL" }

\* Error messages are the words of the message text; status 0 is an error
\* without a status (a timeout, a connection failure)
NoError == [kind |-> "none", status |-> 0, message |-> <<>>]

Ok == [kind |-> "ok", status |-> 200, message |-> <<>>]

Failure(status, message) == [kind |-> "fail", status |-> status, message |-> message]

\* the upstream failures explored
Failures ==
    { Failure(500, <<"Server", "Error">>),
      Failure(503, <<"503", "Service", "Unavailable">>),
      Failure(404, <<"Not", "Found">>),
      Failure(403, <<"Resource", "not", "accessible">>),
      Failure(403, <<"API", "rate", "limit", "exceeded">>),
      Failure(0, <<"network", "timeout">>),
      Failure(0, <<"Connection", "reset">>) }

\* a GraphQL response whose transport succeeded and that carries errors[]
ErrorLists ==
    { [kind |-> "errors", status |-> 200, message |-> <<"Field", "not", "found">>] }

Answers(cl) == {Ok} \cup Failures \cup (IF cl = "GraphQL" THEN ErrorLists ELSE {})

\* String.prototype.toLowerCase, word by word
ToLower(word) ==
    CASE word = "API" -> "api"
      [] word = "Connection" -> "connection"
      [] word = "Server" -> "server"
      [] word = "Error" -> "error"
      [] word = "Service" -> "service"
      [] word = "Unavailable" -> "unavailable"
      [] word = "Not" -> "not"
      [] word = "Found" -> "found"
      [] word = "Resource" -> "resource"
      [] word = "Field" -> "field"
      [] word = "GraphQL" -> "graphql"
      [] word = "Timeout" -> "timeout"
      [] OTHER -> word

toLowerCase(message) == [i \in 1..Len(message) |-> ToLower(message[i])]

\* String.prototype.includes, on words
includes(message, needle) ==
    \E i \in 0..(Len(message) - Len(needle)) :
        SubSeq(message, i + 1, i + Len(needle)) = needle

\* what executeQuery throws for a response that carries errors[]
GraphQLErrorsError(answer) ==
    [kind |-> "fail", status |-> 0, message |-> <<"GraphQL", "errors:">> \o answer.message]

\* the error the catch block sees for an answer that is not a success
ThrownError(answer) ==
    IF answer.kind = "errors" THEN GraphQLErrorsError(answer) ELSE answer

isRateLimitError(cl, error) ==
    LET message == toLowerCase(error.message)
    IN IF cl = "REST"
       THEN \/ includes(message, <<"rate", "limit">>)
            \/ includes(message, <<"exceeded">>)
            \/ error.status = 403
       ELSE \/ includes(message, <<"rate", "limit">>)
            \/ includes(message, <<"exceeded">>)
            \/ (includes(message, <<"403">>) /\ includes(message, <<"limit">>))

isRetryableError(cl, error) ==
    LET message == toLowerCase(error.message)
    IN IF cl = "REST"
       THEN \/ includes(message, <<"timeout">>)
            \/ includes(message, <<"network">>)
            \/ includes(message, <<"connection">>)
            \/ error.status \in {500, 502, 503, 504}
       ELSE \/ includes(message, <<"timeout">>)
            \/ includes(message, <<"network">>)
            \/ includes(message, <<"connection">>)
            \/ includes(message, <<"500">>)
            \/ includes(message, <<"502">>)
            \/ includes(message, <<"503">>)
            \/ includes(message, <<"504">>)

\* calculateRetryDelay without the exponent
calculateRetryDelayFlat(cl, opts, a, jitter) ==
    IF cl = "REST" THEN opts.retryDelay + jitter ELSE opts.retryDelay

\* calculateRetryDelay: the REST client adds the jitter, the GraphQL client none
calculateRetryDelay(cl, opts, a, jitter) ==
    IF cl = "REST"
    THEN opts.retryDelay * 2^(a - 1) + jitter
    ELSE opts.retryDelay * 2^(a - 1)

\* rateLimitInfo = null, and a snapshot whose reset is at time r
NoSnapshot == [present |-> FALSE, reset |-> 0]

Snapshot(r) == [present |-> TRUE, reset |-> r]

\* a response without rate-limit headers (REST) or extensions.rateLimit (GraphQL)
NoHeader == 0 - 1

\* updateRateLimitFromHeaders after a REST response; updateRateLimitInfo after a
\* GraphQL response, which runs before the errors[] of the response are looked at
UpdatedRateLimitInfo(cl, info, answer, header) ==
    IF header = NoHeader THEN info
    ELSE IF answer.kind = "ok" THEN Snapshot(header)
    ELSE IF cl = "GraphQL" /\ answer.kind = "errors" THEN Snapshot(header)
    ELSE info

NoTimer == 0 - 1

NotReturned == 0 - 1

\* waitForRateLimit without its setTimeout
waitForRateLimitNoWait(info, t, after) ==
    [ afterCall |-> after, start |-> t, info |-> info, timer |-> NoTimer,
      returnedAt |-> NotReturned ]

\* waitForRateLimit up to its await: the snapshot it read, and the delay of the
\* setTimeout it set, if it set one
waitForRateLimit(info, t, after) ==
    [ afterCall |-> after, start |-> t, info |-> info,
      timer |-> IF info.present /\ info.reset - t > 0 THEN info.reset - t ELSE NoTimer,
      returnedAt |-> NotReturned ]

\* the setTimeout of a wait has fired, or the wait set none
WaitOver(w, t) == w.timer = NoTimer \/ t >= w.start + w.timer

NoOutcome ==
    [kind |-> "none", payload |-> 0, type |-> "", attempts |-> 0 - 1, cause |-> NoError,
     snapshot |-> NoSnapshot]

\* return response / return response.data: the payload of the call that succeeded
Returned(call) == [NoOutcome EXCEPT !.kind = "ok", !.payload = call]

\* throw new GitHubAPIError(..., { originalError: lastError, attempts: attempt })
RequestFailed(error, a) ==
    [NoOutcome EXCEPT !.kind = "error", !.type = "GitHubAPIError",
                      !.attempts = a, !.cause = error]

\* throw new GitHubAPIError in place of the RateLimitError
RateLimitedAsRequestFailed(info) ==
    [NoOutcome EXCEPT !.kind = "error", !.type = "GitHubAPIError", !.snapshot = info]

\* throw new RateLimitError(..., { rateLimitInfo: this.rateLimitInfo })
RateLimited(info) ==
    [NoOutcome EXCEPT !.kind = "error", !.type = "RateLimitError", !.snapshot = info]

\* throw lastError!
ThrownLastError(error) ==
    [NoOutcome EXCEPT !.kind = "error",
                      !.type = IF error = NoError THEN "undefined" ELSE "Error",
                      !.cause = error]

ExecOptionSets == [ maxRetries : 0..MaxRetriesBound, retryDelay : RetryDelays ]

\* no request in progress
ExecIdle ==
    /\ pc = "idle"
    /\ attempt = 1
    /\ script = <<>>
    /\ calls = 0
    /\ delays = <<>>
    /\ outcome = NoOutcome
    /\ rateLimitInfo = NoSnapshot
    /\ waits = <<>>
    /\ issued = <<>>
    /\ observed = <<>>

ExecInit ==
    /\ client \in Clients
    /\ execOptions \in ExecOptionSets
    /\ ExecIdle

\* a caller invokes executeRequest / executeQuery; the loop starts at attempt 1
StartRequest(sc) ==
    /\ pc = "idle"
    /\ script' = sc
    /\ attempt' = 1
    /\ calls' = 0
    /\ delays' = <<>>
    /\ IF 1 <= execOptions.maxRetries
       THEN pc' = "calling" /\ outcome' = NoOutcome
       ELSE pc' = "done" /\ outcome' = ThrownLastError(NoError)
    /\ waits' = <<>>
    /\ issued' = <<>>
    /\ observed' = <<>>
    /\ UNCHANGED <<client, execOptions, rateLimitInfo, nonExecVars>>

\* the loop re-enters: attempt++, then the loop condition
NextAttempt(lastError) ==
    /\ attempt' = attempt + 1
    /\ IF attempt + 1 <= execOptions.maxRetries
       THEN pc' = "calling" /\ outcome' = outcome
       ELSE pc' = "done" /\ outcome' = ThrownLastError(lastError)

\* one pass of the loop body: the upstream call, its answer, and the catch block
Attempt(jitter, header) ==
    /\ pc = "calling"
    /\ calls' = calls + 1
    /\ issued' = Append(issued, now)
    /\ observed' = Append(observed, header)
    /\ LET answer == script[calls + 1]
           lastError == ThrownError(answer)
           info == UpdatedRateLimitInfo(client, rateLimitInfo, answer, header)
       IN /\ rateLimitInfo' = info
          /\ IF answer.kind = "ok"
             THEN /\ pc' = "done"
                  /\ outcome' = Returned(calls + 1)
                  /\ UNCHANGED <<attempt, delays, waits>>
             ELSE IF isRateLimitError(client, lastError)
             THEN IF attempt = execOptions.maxRetries
                  THEN /\ pc' = "done"
                       /\ outcome' = RateLimited(info)
                       /\ UNCHANGED <<attempt, delays, waits>>
                  ELSE /\ pc' = "waiting"
                       /\ waits' = Append(waits, waitForRateLimit(info, now, calls + 1))
                       /\ UNCHANGED <<attempt, delays, outcome>>
             ELSE IF isRetryableError(client, lastError) /\ attempt < execOptions.maxRetries
             THEN /\ pc' = "sleeping"
                  /\ delays' = Append(delays,
                        [attempt |-> attempt, jitter |-> jitter,
                         delay |-> calculateRetryDelay(client, execOptions, attempt, jitter)])
                  /\ UNCHANGED <<attempt, outcome, waits>>
             ELSE /\ pc' = "done"
                  /\ outcome' = RequestFailed(lastError, attempt)
                  /\ UNCHANGED <<attempt, delays, waits>>
    /\ UNCHANGED <<client, execOptions, script, nonExecVars>>

\* the setTimeout of the backoff fires: continue
BackoffElapsed ==
    /\ pc = "sleeping"
    /\ NextAttempt(ThrownError(script[calls]))
    /\ UNCHANGED <<client, execOptions, script, calls, delays,
                   rateLimitInfo, waits, issued, observed, nonExecVars>>

\* waitForRateLimit returns: continue
RateLimitWaitElapsed ==
    /\ pc = "waiting"
    /\ WaitOver(waits[Len(waits)], now)
    /\ waits' = [waits EXCEPT ![Len(waits)].returnedAt = now]
    /\ NextAttempt(ThrownError(script[calls]))
    /\ UNCHANGED <<client, execOptions, script, calls, delays,
                   rateLimitInfo, issued, observed, nonExecVars>>

\* the caller has its result; the executor is free for the next request
Settle ==
    /\ pc = "done"
    /\ pc' = "idle"
    /\ attempt' = 1
    /\ script' = <<>>
    /\ calls' = 0
    /\ delays' = <<>>
    /\ outcome' = NoOutcome
    /\ waits' = <<>>
    /\ issued' = <<>>
    /\ observed' = <<>>
    /\ UNCHANGED <<client, execOptions, rateLimitInfo, nonExecVars>>

Scripts == [ 1..execOptions.maxRetries -> Answers(client) ]

StartAny == \E sc \in Scripts : StartRequest(sc)

AttemptAny ==
    \E jitter \in (IF client = "REST" THEN JitterDraws ELSE {0}) : Attempt(jitter, NoHeader)

ExecNext == StartAny \/ AttemptAny \/ BackoffElapsed \/ RateLimitWaitElapsed \/ Settle

-----------------------------------------------------------------------------
(* The executors with rate-limit snapshots and a running clock *)

\* the upstream answers explored where the rate limit matters
RateAnswers(cl) ==
    { Ok,
      Failure(403, <<"API", "rate", "limit", "exceeded">>),
      Failure(0, <<"network", "timeout">>) }
    \cup (IF cl = "GraphQL"
          THEN { [kind |-> "errors", status |-> 200,
                  message |-> <<"API", "rate", "limit", "exceeded">>] }
          ELSE {})

RateOptionSets == [ maxRetries : {2, 3}, retryDelay : {1000} ]

\* the reset times a response may carry
Headers == {NoHeader} \cup 0..MaxTime

RateInit ==
    /\ client \in Clients
    /\ execOptions \in RateOptionSets
    /\ ExecIdle

RateStart == \E sc \in [ 1..execOptions.maxRetries -> RateAnswers(client) ] : StartRequest(sc)

RateAttempt == \E header \in Headers : Attempt(0, header)

RateNext ==
    RateStart \/ RateAttempt \/ BackoffElapsed \/ RateLimitWaitElapsed \/ Settle \/ Tick

-----------------------------------------------------------------------------
(* GraphQLClient: the batching queue, processBatch and destroy *)

\* the queries submitted in one run
MaxQueries == 3

\* options.enableBatching, options.maxBatchSize
BatchOptions == [ enableBatching |-> TRUE, maxBatchSize |-> 2 ]

\* a promise nobody has settled, with the value or error it was settled with
NoSettle == [ resolved |-> 0, rejected |-> 0, value |-> 0, error |-> 0 ]

\* results[index] past the end of the response
Undefined == 0 - 1

\* new Error('GraphQL client destroyed')
Destroyed == 0 - 1

\* the upstream result of query q, and the error of the r-th combined request
ResultOf(q) == q

ErrorOf(r) == r

Min(a, b) == IF a <= b THEN a ELSE b

\* this.batchTimer = null
NoBatchTimer == 0

BatchIdle ==
    /\ batchQueue = <<>>
    /\ batchTimer = NoBatchTimer
    /\ timers = {}
    /\ inflight = <<>>
    /\ requests = <<>>
    /\ throttleOpen = FALSE
    /\ settled = <<>>

\* item.resolve(value) / item.reject(error)
Resolve(st, id, value) ==
    [ st EXCEPT ![id].resolved = @ + 1, ![id].value = value ]

Reject(st, id, error) ==
    [ st EXCEPT ![id].rejected = @ + 1, ![id].error = error ]

\* batch.forEach((item, index) => item.resolve(results[index]))
RECURSIVE ResolveAll(_, _, _, _)
ResolveAll(st, items, results, i) ==
    IF i > Len(items) THEN st
    ELSE ResolveAll(Resolve(st, items[i], results[i]), items, results, i + 1)

\* batch.forEach(item => item.reject(error))
RECURSIVE RejectAll(_, _, _)
RejectAll(st, items, error) ==
    IF items = <<>> THEN st
    ELSE RejectAll(Reject(st, Head(items), error), Tail(items), error)

\* createBatchQuery and the upstream: the data of a combined request holds,
\* under the alias query<i>, the result of the i-th query that was sent
ResponseTo(queries) == [ i \in 1..Len(queries) |-> ResultOf(queries[i]) ]

\* extractBatchResults(response, queryCount): response[`query${i}`] for each i
extractBatchResults(response, queryCount) ==
    [ i \in 1..queryCount |-> IF i <= Len(response) THEN response[i] ELSE Undefined ]

\* the lodash throttle around executeQuery, leading and not trailing: a call
\* inside the interval invokes nothing and returns the last invocation's promise
throttledRequestInvoked(open) == ~open

\* clearTimeout(handle) leaving the timeout armed
clearTimeoutKept(armed, handle) == armed

\* clearTimeout(handle): the timeout will not fire; one that has fired, or
\* was cleared before, is left as it is
clearTimeout(armed, handle) == armed \ {handle}

\* processBatch up to its await: the timer is cleared, the batch is spliced off
\* the queue, and batchQuery calls throttledRequest with the combined query;
\* armed are the timeouts armed when it is called
ProcessBatch(queue, armed) ==
    /\ timers' = IF batchTimer # NoBatchTimer THEN clearTimeout(armed, batchTimer) ELSE armed
    /\ batchTimer' = NoBatchTimer
    /\ IF queue = <<>>
       THEN /\ batchQueue' = queue
            /\ UNCHANGED <<inflight, requests, throttleOpen>>
       ELSE LET n == Min(BatchOptions.maxBatchSize, Len(queue))
                batch == SubSeq(queue, 1, n)
                invoked == throttledRequestInvoked(throttleOpen)
                reqs == IF invoked
                        THEN Append(requests, [queries |-> batch, state |-> "pending"])
                        ELSE requests
            IN /\ batchQueue' = SubSeq(queue, n + 1, Len(queue))
               /\ requests' = reqs
               /\ throttleOpen' = TRUE
               /\ inflight' = Append(inflight, [items |-> batch, request |-> Len(reqs)])

\* query(q) with batching enabled: addToBatch; the handle setTimeout returns
\* is named after the submission that armed it
Submit ==
    /\ Len(settled) < MaxQueries
    /\ settled' = Append(settled, NoSettle)
    /\ LET queue == Append(batchQueue, Len(settled) + 1)
           handle == Len(settled) + 1
       IN IF Len(queue) >= BatchOptions.maxBatchSize
          THEN ProcessBatch(queue, timers)
          ELSE /\ batchQueue' = queue
               /\ IF batchTimer = NoBatchTimer
                  THEN /\ batchTimer' = handle
                       /\ timers' = timers \cup {handle}
                  ELSE UNCHANGED <<batchTimer, timers>>
               /\ UNCHANGED <<inflight, requests, throttleOpen>>
    /\ UNCHANGED nonBatchVars

\* the 100 ms batching timer fires: processBatch
TimerFires ==
    \E handle \in timers :
    /\ ProcessBatch(batchQueue, timers \ {handle})
    /\ UNCHANGED <<settled, nonBatchVars>>

\* the throttle interval has passed since the last invocation
ThrottleIntervalElapsed ==
    /\ throttleOpen
    /\ throttleOpen' = FALSE
    /\ UNCHANGED <<batchQueue, batchTimer, timers, inflight, requests, settled, nonBatchVars>>

\* executeQuery returns the data of request r, or throws
UpstreamAnswers(r, state) ==
    /\ requests[r].state = "pending"
    /\ requests' = [ requests EXCEPT ![r].state = state ]
    /\ UNCHANGED <<batchQueue, batchTimer, timers, inflight, throttleOpen, settled, nonBatchVars>>

\* processBatch after its await: resolve each item with its result, or reject all
BatchCompletes(k) ==
    LET b == inflight[k]
        req == requests[b.request]
    IN /\ req.state # "pending"
       /\ settled' =
            IF req.state = "ok"
            THEN ResolveAll(settled, b.items,
                            extractBatchResults(ResponseTo(req.queries), Len(b.items)), 1)
            ELSE RejectAll(settled, b.items, ErrorOf(b.request))
       /\ inflight' = SubSeq(inflight, 1, k - 1) \o SubSeq(inflight, k + 1, Len(inflight))
       /\ UNCHANGED <<batchQueue, batchTimer, timers, requests, throttleOpen, nonBatchVars>>

\* destroy() leaving the rejected items in the queue
QueueAfterDestroyKept(queue) == queue

\* destroy(): this.batchQueue = []
QueueAfterDestroy(queue) == <<>>

\* destroy(): the timer is cleared and every queued item is rejected
Destroy ==
    /\ batchQueue # <<>> \/ batchTimer # NoBatchTimer
    /\ timers' = IF batchTimer # NoBatchTimer THEN clearTimeout(timers, batchTimer) ELSE timers
    /\ batchTimer' = NoBatchTimer
    /\ settled' = RejectAll(settled, batchQueue, Destroyed)
    /\ batchQueue' = QueueAfterDestroy(batchQueue)
    /\ UNCHANGED <<inflight, requests, throttleOpen, nonBatchVars>>

AnyAnswer == \E r \in 1..Len(requests), state \in {"ok", "failed"} : UpstreamAnswers(r, state)

AnyCompletion == \E k \in 1..Len(inflight) : BatchCompletes(k)

BatchNext ==
    Submit \/ TimerFires \/ ThrottleIntervalElapsed \/ AnyAnswer \/ AnyCompletion \/ Destroy

\* timers fire, the upstream answers, and continuations run
BatchFairness ==
    /\ WF_vars(TimerFires)
    /\ WF_vars(AnyAnswer)
    /\ WF_vars(AnyCompletion)

-----------------------------------------------------------------------------
(* RESTClient.paginate *)

\* the page numbers the upstream holds data for
MaxSourcePage == 3

\* params.per_page of the calls explored
PerPage == 2

\* the upstream's pages: how many items each page number returns
PageSources == [ 1..MaxSourcePage -> 0..PerPage ]

\* params.page, options.maxPages and the upstream of one paginate call
PageInputs ==
    [ page : 1..MaxSourcePage, perPage : {PerPage}, maxPages : 1..MaxSourcePage,
      source : PageSources ]

\* this.get(endpoint, { ...params, page, per_page }): the items of one page
PageData(input, page) ==
    [ k \in 1..(IF page \in DOMAIN input.source THEN input.source[page] ELSE 0)
        |-> <<page, k>> ]

NoPageResult == [ data |-> <<>>, page |-> 0, perPage |-> 0, hasNextPage |-> FALSE,
                  hasPreviousPage |-> FALSE ]

PageIdle ==
    /\ pgInput = [ page |-> 1, perPage |-> PerPage, maxPages |-> 1,
                   source |-> [ n \in 1..MaxSourcePage |-> 0 ] ]
    /\ pgPage = 0
    /\ pgAllData = <<>>
    /\ pgHasNextPage = FALSE
    /\ pgReads = <<>>
    /\ pgPc = "idle"
    /\ pgResult = NoPageResult

\* paginate(endpoint, params, options) up to its loop
PaginateStart(input) ==
    /\ pgPc = "idle"
    /\ pgInput' = input
    /\ pgPage' = input.page
    /\ pgAllData' = <<>>
    /\ pgHasNextPage' = TRUE
    /\ pgReads' = <<>>
    /\ pgPc' = "loop"
    /\ pgResult' = NoPageResult
    /\ UNCHANGED nonPageVars

\* while (hasNextPage && page <= maxPages)
PaginateLoopCondition(hasNextPage, page, maxPages) == hasNextPage /\ page <= maxPages

\* hasNextPage: page <= maxPages && hasNextPage
ReturnedHasNextPage(page, maxPages, hasNextPage) == page <= maxPages /\ hasNextPage

\* one pass of the loop body
PaginateStep ==
    /\ pgPc = "loop"
    /\ PaginateLoopCondition(pgHasNextPage, pgPage, pgInput.maxPages)
    /\ LET pageData == PageData(pgInput, pgPage)
       IN /\ pgAllData' = pgAllData \o pageData
          /\ pgHasNextPage' = (Len(pageData) = pgInput.perPage)
          /\ pgReads' = Append(pgReads, pgPage)
    /\ pgPage' = pgPage + 1
    /\ UNCHANGED <<pgInput, pgPc, pgResult, nonPageVars>>

\* the loop ends: return { data, pagination }
PaginateReturn ==
    /\ pgPc = "loop"
    /\ ~PaginateLoopCondition(pgHasNextPage, pgPage, pgInput.maxPages)
    /\ pgPc' = "returned"
    /\ pgResult' = [ data |-> pgAllData,
                     page |-> pgInput.page,
                     perPage |-> pgInput.perPage,
                     hasNextPage |-> ReturnedHasNextPage(pgPage, pgInput.maxPages, pgHasNextPage),
                     hasPreviousPage |-> pgInput.page > 1 ]
    /\ UNCHANGED <<pgInput, pgPage, pgAllData, pgHasNextPage, pgReads, nonPageVars>>

\* the caller has the result
PaginateSettle ==
    /\ pgPc = "returned"
    /\ pgInput' = [ page |-> 1, perPage |-> PerPage, maxPages |-> 1,
                    source |-> [ n \in 1..MaxSourcePage |-> 0 ] ]
    /\ pgPage' = 0
    /\ pgAllData' = <<>>
    /\ pgHasNextPage' = FALSE
    /\ pgReads' = <<>>
    /\ pgPc' = "idle"
    /\ pgResult' = NoPageResult
    /\ UNCHANGED nonPageVars

PaginateAny == \E input \in PageInputs : PaginateStart(input)

PageNext == PaginateAny \/ PaginateStep \/ PaginateReturn \/ PaginateSettle

-----------------------------------------------------------------------------
(* IssueRepository.bulkOperation *)

\* const concurrency = 5
concurrency == 5

\* operation.issueNumbers of the calls explored
BulkRequests ==
    { <<7>>, <<3, 3>>, <<1, 2, 3, 4, 5, 6>>, <<1, 2, 3, 4, 5, 3, 7>> }

NoBulkResults == [ success |-> <<>>, failed |-> <<>> ]

BulkIdle ==
    /\ bulkRequest = <<>>
    /\ bulkChunk = 0
    /\ bulkPending = {}
    /\ bulkResults = NoBulkResults
    /\ bulkPc = "idle"

\* the number of chunks the first loop pushes
ChunkCount(request) == (Len(request) + concurrency - 1) \div concurrency

\* the positions of operation.issueNumbers.slice(i, i + concurrency) for chunk c
ChunkPositions(request, c) ==
    { i \in 1..Len(request) : (c - 1) * concurrency < i /\ i <= c * concurrency }

\* bulkOperation(operation): the chunks are cut and the first chunk's promises start
BulkStart(request) ==
    /\ bulkPc = "idle"
    /\ bulkRequest' = request
    /\ bulkResults' = NoBulkResults
    /\ IF ChunkCount(request) = 0
       THEN bulkPc' = "returned" /\ bulkChunk' = 0 /\ bulkPending' = {}
       ELSE bulkPc' = "running" /\ bulkChunk' = 1 /\ bulkPending' = ChunkPositions(request, 1)
    /\ UNCHANGED nonBulkVars

\* a failed item that takes the rest of its chunk down with it
PendingAfterAbort(pending, i, ok) == IF ok THEN pending \ {i} ELSE {}

\* the promise of one item settles; the others of the chunk stay pending
PendingAfter(pending, i, ok) == pending \ {i}

\* the operation on one issue ends: results.success.push / results.failed.push
ItemSettles(i, ok) ==
    /\ bulkPc = "running"
    /\ i \in bulkPending
    /\ bulkResults' =
          IF ok
          THEN [ bulkResults EXCEPT !.success = Append(@, bulkRequest[i]) ]
          ELSE [ bulkResults EXCEPT !.failed = Append(@, [issueNumber |-> bulkRequest[i]]) ]
    /\ bulkPending' = PendingAfter(bulkPending, i, ok)
    /\ UNCHANGED <<bulkRequest, bulkChunk, bulkPc, nonBulkVars>>

\* await Promise.allSettled(promises) returns: the next chunk, or return results
ChunkDone ==
    /\ bulkPc = "running"
    /\ bulkPending = {}
    /\ IF bulkChunk < ChunkCount(bulkRequest)
       THEN /\ bulkChunk' = bulkChunk + 1
            /\ bulkPending' = ChunkPositions(bulkRequest, bulkChunk + 1)
            /\ bulkPc' = "running"
       ELSE /\ bulkPc' = "returned"
            /\ UNCHANGED <<bulkChunk, bulkPending>>
    /\ UNCHANGED <<bulkRequest, bulkResults, nonBulkVars>>

\* the caller has the results
BulkSettle ==
    /\ bulkPc = "returned"
    /\ bulkRequest' = <<>>
    /\ bulkChunk' = 0
    /\ bulkPending' = {}
    /\ bulkResults' = NoBulkResults
    /\ bulkPc' = "idle"
    /\ UNCHANGED nonBulkVars

BulkAny == \E request \in BulkRequests : BulkStart(request)

ItemAny == \E i \in bulkPending, ok \in BOOLEAN : ItemSettles(i, ok)

BulkNext == BulkAny \/ ItemAny \/ ChunkDone \/ BulkSettle

-----------------------------------------------------------------------------
(* RESTClient: get and post over the cache and the throttled executor *)

\* the get / post calls made in one run
MaxCalls == 3

\* options.enableCaching, options.cacheTTL
RestOptions == [ enableCaching |-> TRUE, cacheTTL |-> 300000 ]

\* the options of the exported cache instance: new CacheManager()
DefaultCacheOptions ==
    [ maxSize |-> 10000, defaultTTL |-> 300000, policy |-> "LRU",
      maxMemoryBytes |-> 104857600 ]

\* the endpoints called, as the words of the endpoint string
Endpoints ==
    { <<"/", "repos", "/", "o", "/", "r", "/", "issues">>,
      <<"/", "repos", "/", "o", "/", "r", "/", "milestones">>,
      <<"/", "user", "/", "repos">> }

\* Buffer.from(JSON.stringify({})).toString('base64'): every call passes params {}
EmptyParams == "e30="

\* generateCacheKey(method, endpoint, params)
generateCacheKey(method, endpoint, params) ==
    <<"github:rest:", method, ":">> \o endpoint \o <<":", params>>

\* the alternatives of the expression in invalidateRelatedCache
ResourceWords == { "repos", "issues", "milestones", "projects", "users" }

\* endpoint.match(/\/(repos|issues|milestones|projects|users)\//i): where the
\* leftmost match starts, 0 when there is none
resourceMatch(endpoint) ==
    LET at == { i \in 1..(Len(endpoint) - 2) :
                  /\ endpoint[i] = "/"
                  /\ endpoint[i + 1] \in ResourceWords
                  /\ endpoint[i + 2] = "/" }
    IN IF at = {} THEN 0 ELSE CHOOSE i \in at : \A j \in at : i <= j

\* invalidateRelatedCache(endpoint): cache.invalidate(`github:rest:*:*${resource}*`)
invalidateRelatedCache(c, endpoint) ==
    LET m == resourceMatch(endpoint)
    IN IF m = 0 THEN c
       ELSE LET pattern == <<"github:rest:", "*", ":", "*", endpoint[m + 1], "*">>
            IN DropAt(c, { i \in 1..Len(c) : RegexTest(pattern, c[i].key) })

\* response.data of the upstream's answer to a request: what was asked, and
\* how many writes the endpoint had seen when it was answered
ResponseData(method, endpoint, version) == <<method, endpoint, version>>

RestIdle ==
    /\ restCalls = <<>>
    /\ restRequests = <<>>
    /\ restThrottleOpen = FALSE
    /\ store = [ e \in Endpoints |-> 0 ]
    /\ acked = [ e \in Endpoints |-> 0 ]

\* a call of get or post that goes on to this.throttledRequest(endpoint, ...):
\* inside the throttle interval executeRequest is not invoked, and the call
\* awaits the promise the last invocation returned
AwaitThrottledRequest(method, endpoint) ==
    LET invoked == throttledRequestInvoked(restThrottleOpen)
        reqs == IF invoked
                THEN Append(restRequests,
                            [ method |-> method, endpoint |-> endpoint,
                              state |-> "pending", data |-> Null ])
                ELSE restRequests
    IN /\ restRequests' = reqs
       /\ restThrottleOpen' = TRUE
       /\ restCalls' = Append(restCalls,
                         [ method |-> method, endpoint |-> endpoint,
                           floor |-> acked[endpoint], request |-> Len(reqs),
                           own |-> invoked, hit |-> FALSE,
                           state |-> "awaiting", data |-> Null ])

\* get(endpoint) up to its second await: the cache is tried first
RestGet(endpoint) ==
    LET key == generateCacheKey("GET", endpoint, EmptyParams)
        i == IndexOf(cache, key)
    IN /\ Len(restCalls) < MaxCalls
       /\ IF RestOptions.enableCaching /\ i # 0 /\ ~GetExpired(cache[i], now)
          THEN \* cache hit: return cached
               /\ cache' = [ cache EXCEPT ![i].accessCount = @ + 1,
                                          ![i].lastAccessed = now ]
               /\ restCalls' = Append(restCalls,
                                 [ method |-> "GET", endpoint |-> endpoint,
                                   floor |-> acked[endpoint], request |-> 0,
                                   own |-> FALSE, hit |-> TRUE,
                                   state |-> "returned", data |-> cache[i].value ])
               /\ UNCHANGED <<restRequests, restThrottleOpen>>
          ELSE /\ cache' = IF RestOptions.enableCaching /\ i # 0
                           THEN MapDelete(cache, key)
                           ELSE cache
               /\ AwaitThrottledRequest("GET", endpoint)
       /\ UNCHANGED <<now, options, hist, store, acked, nonRestVars>>

\* post(endpoint) up to its await
RestPost(endpoint) ==
    /\ Len(restCalls) < MaxCalls
    /\ AwaitThrottledRequest("POST", endpoint)
    /\ UNCHANGED <<cacheVars, store, acked, nonRestVars>>

\* the throttle interval has passed since the last invocation
RestThrottleIntervalElapsed ==
    /\ restThrottleOpen
    /\ restThrottleOpen' = FALSE
    /\ UNCHANGED <<restCalls, restRequests, store, acked, cacheVars, nonRestVars>>

\* executeRequest of request r gets the upstream's answer, a write being
\* applied when it is answered, or throws
UpstreamResponds(r, ok) ==
    LET req == restRequests[r]
        version == IF req.method = "POST"
                   THEN store[req.endpoint] + 1
                   ELSE store[req.endpoint]
    IN /\ req.state = "pending"
       /\ IF ok
          THEN /\ store' = [ store EXCEPT ![req.endpoint] = version ]
               /\ restRequests' =
                    [ restRequests EXCEPT
                        ![r].state = "ok",
                        ![r].data = ResponseData(req.method, req.endpoint, version) ]
          ELSE /\ store' = store
               /\ restRequests' = [ restRequests EXCEPT ![r].state = "failed" ]
       /\ UNCHANGED <<restCalls, restThrottleOpen, acked, cacheVars, nonRestVars>>

\* get / post after the await of throttledRequest: a get stores response.data
\* under its cache key, a post invalidates the related cache entries, and
\* both return response.data; a rejected promise is thrown on to the caller
RestContinues(k) ==
    LET call == restCalls[k]
        req == restRequests[call.request]
    IN /\ call.state = "awaiting"
       /\ req.state # "pending"
       \* the awaiters of one promise continue in the order they awaited it
       /\ \A j \in 1..(k - 1) :
            restCalls[j].request = call.request => restCalls[j].state # "awaiting"
       /\ IF req.state = "failed"
          THEN /\ restCalls' = [ restCalls EXCEPT ![k].state = "threw" ]
               /\ UNCHANGED <<cache, acked>>
          ELSE /\ restCalls' = [ restCalls EXCEPT ![k].state = "returned",
                                                  ![k].data = req.data ]
               /\ IF call.method = "GET"
                  THEN /\ cache' =
                            IF RestOptions.enableCaching
                            THEN SetResult(cache, options,
                                           generateCacheKey("GET", call.endpoint, EmptyParams),
                                           req.data, RestOptions.cacheTTL, now)
                            ELSE cache
                       /\ acked' = acked
                  ELSE /\ cache' =
                            IF RestOptions.enableCaching
                            THEN invalidateRelatedCache(cache, call.endpoint)
                            ELSE cache
                       \* the caller has seen its own write complete
                       /\ acked' =
                            IF call.own
                            THEN [ acked EXCEPT ![call.endpoint] = Max(@, req.data[3]) ]
                            ELSE acked
       /\ UNCHANGED <<restRequests, restThrottleOpen, store, now, options, hist,
                      nonRestVars>>

RestGetAny == \E endpoint \in Endpoints : RestGet(endpoint)

RestPostAny == \E endpoint \in Endpoints : RestPost(endpoint)

RestAnswerAny == \E r \in 1..Len(restRequests), ok \in BOOLEAN : UpstreamResponds(r, ok)

RestContinueAny == \E k \in 1..Len(restCalls) : RestContinues(k)

RestNext ==
    RestGetAny \/ RestPostAny \/ RestThrottleIntervalElapsed \/ RestAnswerAny
        \/ RestContinueAny

-----------------------------------------------------------------------------
(* CacheManager.set as callers interleave it: it suspends at each await *)

\* the set calls made in one run
MaxSetCalls == 3

\* a value JSON.stringify throws on: an object that refers to itself
Circular == <<"circular">>

\* JSON.stringify(value) returns
Serializable(value) == value # Circular

\* the values given to set(): the serializable ones and the circular one
SetValues == Values \cup {Circular}

SetsIdle ==
    /\ setCalls = <<>>
    /\ setQueue = <<>>

\* set(): the entry is built and put into the map, and the promise resolves
InsertStep(c, opts, call, t) ==
    [ cache |-> MapSet(c, NewEntry(call.key, call.value, call.ttl, opts, t)),
      stage |-> "resolved" ]

\* set() from "Check size limits" on: evictEntries runs and the call suspends
\* at its await, or the entry is inserted
SizeStep(c, opts, call, t) ==
    IF NeedsSizeEviction(c, opts)
    THEN [ cache |-> evictEntries(c, opts.policy), stage |-> "afterSizeCheck" ]
    ELSE InsertStep(c, opts, call, t)

\* set() from its first line on: estimateSize throws and the promise rejects,
\* or evictEntries runs and the call suspends at its await, or it goes on
StartStep(c, opts, call, t) ==
    IF ~Serializable(call.value)
    THEN [ cache |-> c, stage |-> "rejected" ]
    ELSE IF NeedsMemoryEviction(c, opts, estimateSize(call.value))
    THEN [ cache |-> evictEntries(c, opts.policy), stage |-> "afterMemoryCheck" ]
    ELSE SizeStep(c, opts, call, t)

Suspended(stage) == stage \in {"afterMemoryCheck", "afterSizeCheck"}

\* a caller calls set(key, value, ttl): it runs up to its first await
SetCalled(key, value, ttl) ==
    LET call == [ key |-> key, value |-> value, ttl |-> ttl, stage |-> "called" ]
        step == StartStep(cache, options, call, now)
        id == Len(setCalls) + 1
    IN /\ Len(setCalls) < MaxSetCalls
       /\ cache' = step.cache
       /\ setCalls' = Append(setCalls, [ call EXCEPT !.stage = step.stage ])
       /\ setQueue' = IF Suspended(step.stage) THEN Append(setQueue, id) ELSE setQueue
       /\ UNCHANGED <<now, options, hist, nonSetVars>>

\* the suspended call that awaited first resumes: it runs up to its next
\* await, or to its end
SetResumes ==
    /\ setQueue # <<>>
    /\ LET id == Head(setQueue)
           call == setCalls[id]
           step == IF call.stage = "afterMemoryCheck"
                   THEN SizeStep(cache, options, call, now)
                   ELSE InsertStep(cache, options, call, now)
       IN /\ cache' = step.cache
          /\ setCalls' = [ setCalls EXCEPT ![id].stage = step.stage ]
          /\ setQueue' = IF Suspended(step.stage)
                         THEN Append(Tail(setQueue), id)
                         ELSE Tail(setQueue)
    /\ UNCHANGED <<now, options, hist, nonSetVars>>

SetCalledAny ==
    \E key \in Keys, value \in SetValues, ttl \in TTLInputs : SetCalled(key, value, ttl)

SetsNext == SetCalledAny \/ SetResumes

-----------------------------------------------------------------------------
(* FileSystemManager.withLock *)

\* the withLock calls made in one run
MaxLockCalls == 3

\* the file paths locked
LockPaths == { "a.json", "b.json" }

\* this.locks has no entry for the path
NoLock == 0

LocksIdle ==
    /\ lockCalls = <<>>
    /\ locks = [ path \in LockPaths |-> NoLock ]

\* withLock from "Create new lock" up to its await: the executor of the lock
\* promise calls operation(), the promise is put into this.locks, and
\* operation() is called again
Acquired(call) ==
    [ call EXCEPT !.pc = "holding", !.awaits = NoLock, !.executor = "running",
                  !.promise = "pending", !.direct = "running" ]

\* a caller calls withLock(path, operation): it waits for the lock the path
\* has, or takes it
WithLock(path) ==
    LET id == Len(lockCalls) + 1
        call == [ path |-> path, pc |-> "waiting", awaits |-> locks[path],
                  executor |-> "none", promise |-> "none", direct |-> "none",
                  outcome |-> "none" ]
    IN /\ Len(lockCalls) < MaxLockCalls
       /\ IF locks[path] = NoLock
          THEN /\ lockCalls' = Append(lockCalls, Acquired(call))
               /\ locks' = [ locks EXCEPT ![path] = id ]
          ELSE /\ lockCalls' = Append(lockCalls, call)
               /\ locks' = locks
       /\ UNCHANGED nonLockVars

\* the operation() the executor called ends: the timeout is cleared and the
\* lock promise is resolved, or rejected with the operation's error
ExecutorOperationEnds(k, ok) ==
    /\ lockCalls[k].executor = "running"
    /\ lockCalls' =
         [ lockCalls EXCEPT
             ![k].executor = IF ok THEN "ok" ELSE "failed",
             ![k].promise = IF @ # "pending" THEN @
                            ELSE IF ok THEN "resolved" ELSE "rejected" ]
    /\ UNCHANGED <<locks, nonLockVars>>

\* the lockTimeout timer fires before the executor's operation() has ended:
\* the lock promise is rejected
LockTimeout(k) ==
    /\ lockCalls[k].promise = "pending"
    /\ lockCalls' = [ lockCalls EXCEPT ![k].promise = "rejected" ]
    /\ UNCHANGED <<locks, nonLockVars>>

\* the operation() withLock awaits ends: the lock is deleted and its result
\* is returned, or its error thrown, to the caller
DirectOperationEnds(k, ok) ==
    /\ lockCalls[k].direct = "running"
    /\ lockCalls' =
         [ lockCalls EXCEPT
             ![k].direct = IF ok THEN "ok" ELSE "failed",
             ![k].pc = IF ok THEN "returned" ELSE "threw",
             ![k].outcome = IF ok THEN "ownResult" ELSE "ownError" ]
    /\ locks' = [ locks EXCEPT ![lockCalls[k].path] = NoLock ]
    /\ UNCHANGED nonLockVars

\* the lock promise a waiting call awaits has settled: a rejection is thrown
\* to the waiting caller; otherwise the loop tests this.locks again
WaiterResumes(k) ==
    LET call == lockCalls[k]
    IN /\ call.pc = "waiting"
       /\ lockCalls[call.awaits].promise \in {"resolved", "rejected"}
       /\ IF lockCalls[call.awaits].promise = "rejected"
          THEN /\ lockCalls' = [ lockCalls EXCEPT ![k].pc = "threw",
                                                  ![k].outcome = "holderError" ]
               /\ locks' = locks
          ELSE IF locks[call.path] # NoLock
          THEN /\ lockCalls' = [ lockCalls EXCEPT ![k].awaits = locks[call.path] ]
               /\ locks' = locks
          ELSE /\ lockCalls' = [ lockCalls EXCEPT ![k] = Acquired(call) ]
               /\ locks' = [ locks EXCEPT ![call.path] = k ]
       /\ UNCHANGED nonLockVars

WithLockAny == \E path \in LockPaths : WithLock(path)

ExecutorEndsAny ==
    \E k \in 1..Len(lockCalls), ok \in BOOLEAN : ExecutorOperationEnds(k, ok)

LockTimeoutAny == \E k \in 1..Len(lockCalls) : LockTimeout(k)

DirectEndsAny ==
    \E k \in 1..Len(lockCalls), ok \in BOOLEAN : DirectOperationEnds(k, ok)

WaiterResumesAny == \E k \in 1..Len(lockCalls) : WaiterResumes(k)

LocksNext ==
    WithLockAny \/ ExecutorEndsAny \/ LockTimeoutAny \/ DirectEndsAny \/ WaiterResumesAny

-----------------------------------------------------------------------------
(* GraphQLClient.executeQuery on responses that carry errors[] *)

\* the answers explored: success, and responses whose errors[] carry a plain
\* message, a message that names a timeout, and a rate-limit message
ErrorsAnswers ==
    { Ok,
      [kind |-> "errors", status |-> 200, message |-> <<"Field", "not", "found">>],
      [kind |-> "errors", status |-> 200, message |-> <<"Timeout", "on", "validation">>],
      [kind |-> "errors", status |-> 200,
       message |-> <<"API", "rate", "limit", "exceeded">>] }

ErrorsOptionSets == [ maxRetries : {2, 3}, retryDelay : {1000} ]

ErrorsInit ==
    /\ client = "GraphQL"
    /\ execOptions \in ErrorsOptionSets
    /\ ExecIdle

ErrorsStart == \E sc \in [ 1..execOptions.maxRetries -> ErrorsAnswers ] : StartRequest(sc)

ErrorsNext ==
    ErrorsStart \/ AttemptAny \/ BackoffElapsed \/ RateLimitWaitElapsed \/ Settle

-----------------------------------------------------------------------------
(* Specifications *)

\* the cache and the executor as constructed
CacheIdle ==
    /\ cache = <<>>
    /\ now = 0
    /\ hist = NoHist
    /\ options = [maxSize |-> 2, defaultTTL |-> 1, policy |-> "LRU", maxMemoryBytes |-> 4]

ExecAsConstructed ==
    /\ client = "REST"
    /\ execOptions = [maxRetries |-> 3, retryDelay |-> 1000]
    /\ ExecIdle

\* the cache alone: the executor stays as constructed
InitCache ==
    /\ CacheInit
    /\ client = "REST"
    /\ execOptions = [maxRetries |-> 3, retryDelay |-> 1000]
    /\ ExecIdle
    /\ BatchIdle
    /\ PageIdle
    /\ BulkIdle
    /\ RestIdle
    /\ SetsIdle
    /\ LocksIdle

SpecCache == InitCache /\ [][CacheNext]_vars

InitWarm ==
    /\ WarmInit
    /\ client = "REST"
    /\ execOptions = [maxRetries |-> 3, retryDelay |-> 1000]
    /\ ExecIdle
    /\ BatchIdle
    /\ PageIdle
    /\ BulkIdle
    /\ RestIdle
    /\ SetsIdle
    /\ LocksIdle

\* the cache after warmup() of WarmEntries entries
SpecWarm == InitWarm /\ [][WarmNext]_vars

\* one executor alone: the cache stays as constructed
InitExec ==
    /\ ExecInit
    /\ cache = <<>>
    /\ now = 0
    /\ hist = NoHist
    /\ options = [maxSize |-> 2, defaultTTL |-> 1, policy |-> "LRU", maxMemoryBytes |-> 4]
    /\ BatchIdle
    /\ PageIdle
    /\ BulkIdle
    /\ RestIdle
    /\ SetsIdle
    /\ LocksIdle

SpecExec == InitExec /\ [][ExecNext]_vars

InitRate ==
    /\ RateInit
    /\ cache = <<>>
    /\ now = 0
    /\ hist = NoHist
    /\ options = [maxSize |-> 2, defaultTTL |-> 1, policy |-> "LRU", maxMemoryBytes |-> 4]
    /\ BatchIdle
    /\ PageIdle
    /\ BulkIdle
    /\ RestIdle
    /\ SetsIdle
    /\ LocksIdle

\* one executor, its rate-limit snapshot, and the clock
SpecRate == InitRate /\ [][RateNext]_vars

InitBatch ==
    /\ BatchIdle
    /\ CacheIdle
    /\ ExecAsConstructed
    /\ PageIdle
    /\ BulkIdle
    /\ RestIdle
    /\ SetsIdle
    /\ LocksIdle

\* the batching queue of one GraphQL client
SpecBatch == InitBatch /\ [][BatchNext]_vars /\ BatchFairness

InitPage ==
    /\ PageIdle
    /\ CacheIdle
    /\ ExecAsConstructed
    /\ BatchIdle
    /\ BulkIdle
    /\ RestIdle
    /\ SetsIdle
    /\ LocksIdle

\* paginate alone
SpecPage == InitPage /\ [][PageNext]_vars

InitBulk ==
    /\ BulkIdle
    /\ RestIdle
    /\ SetsIdle
    /\ LocksIdle
    /\ CacheIdle
    /\ ExecAsConstructed
    /\ BatchIdle
    /\ PageIdle

\* bulkOperation alone
SpecBulk == InitBulk /\ [][BulkNext]_vars

\* the REST accessor over the exported cache instance
InitRest ==
    /\ cache = <<>>
    /\ now = 0
    /\ hist = NoHist
    /\ options = DefaultCacheOptions
    /\ RestIdle
    /\ SetsIdle
    /\ LocksIdle
    /\ ExecAsConstructed
    /\ BatchIdle
    /\ PageIdle
    /\ BulkIdle

SpecRest == InitRest /\ [][RestNext]_vars

\* interleaved set calls on a cache of each explored configuration
InitSets ==
    /\ CacheInit
    /\ SetsIdle
    /\ ExecAsConstructed
    /\ BatchIdle
    /\ PageIdle
    /\ BulkIdle
    /\ RestIdle
    /\ LocksIdle

SpecSets == InitSets /\ [][SetsNext]_vars

\* withLock alone
InitLocks ==
    /\ LocksIdle
    /\ CacheIdle
    /\ ExecAsConstructed
    /\ BatchIdle
    /\ PageIdle
    /\ BulkIdle
    /\ RestIdle
    /\ SetsIdle

SpecLocks == InitLocks /\ [][LocksNext]_vars

\* the GraphQL executor on responses with errors[]
InitErrors ==
    /\ ErrorsInit
    /\ CacheIdle
    /\ BatchIdle
    /\ PageIdle
    /\ BulkIdle
    /\ RestIdle
    /\ SetsIdle
    /\ LocksIdle

SpecErrors == InitErrors /\ [][ErrorsNext]_vars

-----------------------------------------------------------------------------
(* Claims about the cache *)

\* C1: get(key) never returns the stored value of an entry once the time is
\* greater than the entry's expiresAt, swept or not: it returns null and the
\* entry is removed.
C1_ExpiredNeverReturned ==
    (hist.op = "get" /\ hist.pre # <<>> /\ now > hist.pre[1].expiresAt)
        => (hist.result = Null /\ hist.key \notin CacheKeys(cache))

\* C1 witness: a get found an expired entry that no sweep had removed
C1_Witness ==
    /\ hist.op = "get"
    /\ hist.pre # <<>>
    /\ now > hist.pre[1].expiresAt
    /\ hist.result = Null

\* C2: after any sequence of set calls the number of entries, as reported by
\* stats().totalKeys, is at most maxSize.
C2_TotalKeysBounded == totalKeys(cache) <= options.maxSize

\* C2 witness: a set of a new key into a full cache evicted and left it full
C2_Witness ==
    /\ hist.op = "set"
    /\ hist.preTotal = options.maxSize
    /\ hist.rounds # <<>>
    /\ totalKeys(cache) = options.maxSize
    /\ options.maxSize > 1

\* C3: after any sequence of set calls the sum of the estimated sizes of the
\* entries held is at most the memory budget.
C3_MemoryBounded == getMemoryUsage(cache) <= options.maxMemoryBytes

\* C4: in every eviction round each removed entry ranks no higher than any
\* survivor: by lastAccessed under LRU, by accessCount under LFU.
C4_EvictedRankLowest ==
    \A n \in 1..Len(hist.rounds) :
        \A e \in hist.rounds[n].evicted, s \in Range(hist.rounds[n].survivors) :
            /\ options.policy = "LRU" => e.lastAccessed <= s.lastAccessed
            /\ options.policy = "LFU" => e.accessCount <= s.accessCount

\* C4 witness: a round removed several entries and spared an entry that a get
\* hit had raised above them
C4_Witness ==
    \E n \in 1..Len(hist.rounds) :
        /\ Cardinality(hist.rounds[n].evicted) >= 2
        /\ \E s \in Range(hist.rounds[n].survivors) :
              /\ s.accessCount > 0
              /\ \A e \in hist.rounds[n].evicted :
                    \/ options.policy = "LRU" /\ e.lastAccessed < s.lastAccessed
                    \/ options.policy = "LFU" /\ e.accessCount < s.accessCount

IsPrefix(p, key) == Len(p) <= Len(key) /\ SubSeq(key, 1, Len(p)) = p

\* C5: invalidate(P*) removes exactly the keys that start with P, and a pattern
\* without a wildcard removes only the key equal to it.
C5_InvalidateExact ==
    hist.op = "invalidate" =>
        LET removed == hist.preKeys \ CacheKeys(cache)
            p == hist.pattern
            body == SubSeq(p, 1, Len(p) - 1)
        IN IF "*" \notin Range(p)
           THEN removed = hist.preKeys \cap {p}
           ELSE IF p[Len(p)] = "*" /\ "*" \notin Range(body)
           THEN removed = { k \in hist.preKeys : IsPrefix(body, k) }
           ELSE TRUE

\* C6: a second set(key, v, ttl) with the same key and value leaves
\* stats().totalKeys as the first call left it.
C6_RepeatedSetKeepsTotal ==
    (hist.op = "set" /\ hist.repeat) => totalKeys(cache) = hist.preTotal

-----------------------------------------------------------------------------
(* Claims about the request executors *)

\* a timeout, a connection error, or HTTP 500/502/503/504
IsTransportFailure(answer) ==
    answer.kind = "fail" /\ answer.status \in {0, 500, 502, 503, 504}

\* a 4xx that is not a 403 whose message speaks of a limit
IsPlainClientError(answer) ==
    /\ answer.kind = "fail"
    /\ answer.status \in 400..499
    /\ ~(answer.status = 403 /\ "limit" \in Range(toLowerCase(answer.message)))

\* C7: with maxRetries = N, if the upstream answers attempts 1..k (k < N) with
\* a retryable transport failure and attempt k+1 with success, the caller
\* receives the payload of attempt k+1 after exactly k+1 upstream calls and
\* exactly k backoff delays.
C7_RetriesUntilSuccess ==
    pc = "done" =>
        \A k \in 0..(execOptions.maxRetries - 1) :
            ( /\ \A i \in 1..k : IsTransportFailure(script[i])
              /\ script[k + 1] = Ok )
            => ( /\ outcome.kind = "ok"
                 /\ outcome.payload = k + 1
                 /\ calls = k + 1
                 /\ Len(delays) = k )

\* C8: a request whose attempt fails with a 4xx that is not a rate-limit 403 is
\* never retried: one upstream call, failure on attempt 1.
C8_ClientErrorNotRetried ==
    (calls >= 1 /\ IsPlainClientError(script[1]))
        => (pc = "done" /\ calls = 1 /\ outcome.kind = "error")

\* C9: every request ends after at most maxRetries upstream attempts, and when
\* every attempt fails with a retryable transport error the caller receives a
\* terminal error carrying the last cause and an attempt count of maxRetries,
\* for every maxRetries >= 0.
C9_TerminalErrorAfterMaxRetries ==
    pc = "done" =>
        /\ calls <= execOptions.maxRetries
        /\ (\A i \in 1..execOptions.maxRetries : IsTransportFailure(script[i]))
            => ( /\ outcome.kind = "error"
                 /\ outcome.type \in {"GitHubAPIError", "RateLimitError", "Error"}
                 /\ outcome.attempts = execOptions.maxRetries
                 /\ execOptions.maxRetries >= 1
                        => outcome.cause = script[execOptions.maxRetries] )

DelaysNondecreasing ==
    \A i \in 1..(Len(delays) - 1) : delays[i].delay <= delays[i + 1].delay

\* C10 as stated: within one request the delay before retry k+1 is at least the
\* delay before retry k, for every base retry delay and every jitter draw.
C10_DelaysNondecreasingAlways == DelaysNondecreasing

\* C10 as amended: the delay after failed attempt a is retryDelay * 2^(a-1) plus
\* a jitter in [0, 1000) for REST and no jitter for GraphQL; the delays of one
\* request are nondecreasing when retryDelay is at least the jitter's range
\* (REST), and for every retryDelay in the GraphQL client.
C10_DelaysNondecreasingAboveJitter ==
    /\ \A i \in 1..Len(delays) :
          LET base == execOptions.retryDelay * 2^(delays[i].attempt - 1)
          IN IF client = "REST"
             THEN delays[i].delay - base \in 0..(JitterRange - 1)
             ELSE delays[i].delay = base
    /\ (client = "GraphQL" \/ execOptions.retryDelay >= JitterRange)
          => DelaysNondecreasing

\* C10 witness: REST slept twice, first with the greatest jitter and then with
\* the least, and the second delay is still the longer
C10_Witness ==
    /\ client = "REST"
    /\ execOptions.retryDelay >= JitterRange
    /\ Len(delays) >= 2
    /\ delays[1].jitter = JitterRange - 1
    /\ delays[2].jitter = 0
    /\ delays[1].delay < delays[2].delay

-----------------------------------------------------------------------------
(* Claims about the rate-limit wait *)

\* C11: waitForRateLimit does not return before the reset time of the snapshot
\* it read when that reset time is in the future, and sets no timer (returns
\* without waiting) when there is no snapshot or the reset time has passed.
C11_WaitUntilReset ==
    \A k \in 1..Len(waits) :
        LET w == waits[k]
        IN IF w.info.present /\ w.info.reset > w.start
           THEN w.returnedAt = NotReturned \/ w.returnedAt >= w.info.reset
           ELSE w.timer = NoTimer

\* C11 witness: a wait read a snapshot whose reset was ahead and has returned
C11_Witness ==
    \E k \in 1..Len(waits) :
        /\ waits[k].info.present
        /\ waits[k].info.reset > waits[k].start
        /\ waits[k].returnedAt # NotReturned

\* the answer is a rate-limit error by its wording
IsRateLimitAnswer(answer) ==
    /\ answer.kind # "ok"
    /\ includes(toLowerCase(answer.message), <<"rate", "limit">>)

-----------------------------------------------------------------------------
(* Claims about the batching queue *)

Settlements(id) == settled[id].resolved + settled[id].rejected

\* C13: every query submitted to the batching queue has its promise settled
\* exactly once, never both resolved and rejected nor settled twice, under any
\* interleaving of submissions, timer firings, size-triggered flushes, batch
\* completions and destroy(); and it is eventually settled. A rejection with
\* 'GraphQL client destroyed' reaches only a query that no flush drained.
C13_SettledExactlyOnce ==
    /\ [](\A id \in 1..Len(settled) :
            /\ Settlements(id) <= 1
            /\ (settled[id].rejected = 1 /\ settled[id].error = Destroyed)
                  => \A k \in 1..Len(inflight) : id \notin Range(inflight[k].items))
    /\ \A id \in 1..MaxQueries :
          (Len(settled) >= id) ~> (Len(settled) >= id /\ Settlements(id) = 1)

\* C13 witness: one query was rejected by destroy() while another, drained by a
\* flush that is still in flight, is not yet settled, and a third is resolved
C13_Witness ==
    \E a, b, c \in 1..Len(settled) :
        /\ settled[a].rejected = 1 /\ settled[a].error = Destroyed
        /\ Settlements(b) = 0 /\ \E k \in 1..Len(inflight) : b \in Range(inflight[k].items)
        /\ settled[c].resolved = 1

\* C14: the value delivered to the caller of each item of a flushed batch is
\* the upstream result of that caller's own query, also for a batch flushed
\* shortly after a previous batch.
C14_OwnResultDelivered ==
    \A id \in 1..Len(settled) :
        settled[id].resolved >= 1 => settled[id].value = ResultOf(id)

\* C15: when the combined request of a flush fails every caller of that batch
\* is rejected with its error and none is resolved; a caller whose query was
\* not in the failed request is not rejected with its error; and no caller is
\* resolved with an undefined result.
C15_BatchFailsAtomically ==
    /\ \A r \in 1..Len(requests) :
          requests[r].state = "failed" =>
              \A i \in 1..Len(requests[r].queries) :
                  LET id == requests[r].queries[i]
                  IN Settlements(id) >= 1 =>
                        (settled[id].resolved = 0 /\ settled[id].error = ErrorOf(r))
    /\ \A id \in 1..Len(settled) :
          /\ (settled[id].rejected >= 1 /\ settled[id].error # Destroyed)
                => id \in Range(requests[settled[id].error].queries)
          /\ settled[id].resolved >= 1 => settled[id].value # Undefined

-----------------------------------------------------------------------------
(* Claims about paginate *)

\* the last page read returned per_page items
LastPageFull ==
    /\ pgReads # <<>>
    /\ Len(PageData(pgInput, pgReads[Len(pgReads)])) = pgInput.perPage

\* C18: the hasNextPage flag paginate returns is true exactly when it stopped
\* because the page cap was reached while the last fetched page was full, and
\* false when it stopped because a page returned fewer items than per_page.
C18_HasNextPageReflectsCap ==
    pgPc = "returned" =>
        (pgResult.hasNextPage <=> (LastPageFull /\ pgPage > pgInput.maxPages))

RECURSIVE ConcatPages(_, _)
ConcatPages(input, reads) ==
    IF reads = <<>> THEN <<>>
    ELSE ConcatPages(input, SubSeq(reads, 1, Len(reads) - 1))
         \o PageData(input, reads[Len(reads)])

\* C19: paginate returns the in-order concatenation of the pages it read,
\* which are the consecutive page numbers from the requested start page; it
\* stops after the first page shorter than per_page or after it has read
\* maxPages pages, whichever comes first, for every start page >= 1.
C19_ReadsUntilShortOrMaxPages ==
    pgPc = "returned" =>
        LET n == Len(pgReads)
        IN /\ \A k \in 1..n : pgReads[k] = pgInput.page + k - 1
           /\ pgResult.data = ConcatPages(pgInput, pgReads)
           /\ n <= pgInput.maxPages
           /\ \A k \in 1..(n - 1) : Len(PageData(pgInput, pgReads[k])) = pgInput.perPage
           /\ n = pgInput.maxPages \/ (n >= 1 /\ ~LastPageFull)

-----------------------------------------------------------------------------
(* Claims about bulkOperation *)

\* how often x occurs in the sequence seq
Count(seq, x) == Cardinality({ i \in 1..Len(seq) : seq[i] = x })

FailedNumbers == [ i \in 1..Len(bulkResults.failed) |-> bulkResults.failed[i].issueNumber ]

\* C20 as stated: after bulkOperation returns, each requested issue number
\* appears exactly once in the union of the success list and the failed list.
C20_EachNumberExactlyOnce ==
    bulkPc = "returned" =>
        \A n \in Range(bulkRequest) :
            Count(bulkResults.success, n) + Count(FailedNumbers, n) = 1

\* C20 as amended: every entry of the request is processed, failed entries
\* included: each issue number appears in the success and failed lists together
\* as often as the request lists it, which is exactly once for a request
\* without repeated numbers.
C20_EachEntryExactlyOnce ==
    bulkPc = "returned" =>
        /\ Len(bulkResults.success) + Len(bulkResults.failed) = Len(bulkRequest)
        /\ \A n \in Range(bulkRequest) :
              Count(bulkResults.success, n) + Count(FailedNumbers, n) = Count(bulkRequest, n)

\* C20 witness: a request of more than one chunk returned after an item of its
\* first chunk had failed and items after it had succeeded
C20_Witness ==
    /\ bulkPc = "returned"
    /\ Len(bulkRequest) > concurrency
    /\ bulkResults.failed # <<>>
    /\ bulkResults.failed[1].issueNumber = bulkRequest[1]
    /\ Len(bulkResults.success) = Len(bulkRequest) - 1


-----------------------------------------------------------------------------
(* Claims about the REST accessor *)

\* C16: every REST call that is not served from the cache goes to the request
\* executor as its own upstream request, the payload it returns is the response
\* to its own method and endpoint, and what a get stores under a cache key is
\* the response to the GET of that key, also when calls are issued less than
\* the throttle interval apart.
C16_OwnRequestOwnResponse ==
    /\ \A k \in 1..Len(restCalls) :
         ~restCalls[k].hit =>
            /\ restCalls[k].own
            /\ restCalls[k].state = "returned" =>
                 /\ restCalls[k].data[1] = restCalls[k].method
                 /\ restCalls[k].data[2] = restCalls[k].endpoint
    /\ \A i \in 1..Len(cache) :
         cache[i].key = generateCacheKey("GET", cache[i].value[2], EmptyParams)
            /\ cache[i].value[1] = "GET"

\* C17: once a write on an endpoint has completed successfully, a read of that
\* endpoint started afterwards never returns a cached response that the
\* upstream gave before the write.
C17_ReadsObserveCompletedWrites ==
    \A k \in 1..Len(restCalls) :
        ( /\ restCalls[k].method = "GET"
          /\ restCalls[k].state = "returned"
          /\ restCalls[k].hit
          /\ restCalls[k].data[1] = "GET"
          /\ restCalls[k].data[2] = restCalls[k].endpoint )
        => restCalls[k].data[3] >= restCalls[k].floor

-----------------------------------------------------------------------------
(* Claims about interleaved set calls and about withLock *)

\* C21: a size-estimation or serialization failure while storing a value never
\* fails the set that triggered it: no set call ends with its promise rejected.
C21_SetNeverFails ==
    \A k \in 1..Len(setCalls) : setCalls[k].stage # "rejected"

\* C28: no set interleaves between another set's eviction and its insertion,
\* so the number of entries stays at most maxSize also when set calls are
\* issued while others are suspended.
C28_BoundUnderInterleaving ==
    totalKeys(cache) <= options.maxSize

\* the operation() calls one withLock call has started
Executions(k) ==
    (IF lockCalls[k].executor # "none" THEN 1 ELSE 0)
        + (IF lockCalls[k].direct # "none" THEN 1 ELSE 0)

\* C29: withLock executes the operation it is given exactly once per call,
\* and what the caller receives is the outcome of that execution.
C29_OperationExecutedOnce ==
    \A k \in 1..Len(lockCalls) :
        /\ Executions(k) <= 1
        /\ lockCalls[k].pc \in {"holding", "returned"} => Executions(k) = 1

\* the executions of locked operations in progress on a path
InProgress(path) ==
    { <<k, "executor">> : k \in { j \in 1..Len(lockCalls) :
            lockCalls[j].path = path /\ lockCalls[j].executor = "running" } }
    \cup
    { <<k, "direct">> : k \in { j \in 1..Len(lockCalls) :
            lockCalls[j].path = path /\ lockCalls[j].direct = "running" } }

\* C30: at no time are two executions of locked operations on the same path
\* in progress at once, and the holder's failure is never raised to a caller
\* that waited for the lock.
C30_MutualExclusionPerPath ==
    /\ \A path \in LockPaths : Cardinality(InProgress(path)) <= 1
    /\ \A k \in 1..Len(lockCalls) : lockCalls[k].outcome # "holderError"

-----------------------------------------------------------------------------
(* Claims about errors[] responses and about the rate-limit snapshot *)

\* C22: a GraphQL response that carries an errors list which is not a
\* rate-limit message is surfaced at once and never retried: the call ends
\* with an error after exactly one upstream attempt, whatever the text.
C22_ErrorsListNeverRetried ==
    ( /\ client = "GraphQL"
      /\ calls >= 1
      /\ script[1].kind = "errors"
      /\ ~isRateLimitError(client, ThrownError(script[1])) )
    => ( /\ calls = 1
         /\ pc = "done"
         /\ outcome.kind = "error" )

\* C25: every attempt whose answer carries quota information updates the
\* snapshot, failed or not: the snapshot a waitForRateLimit reads after a
\* failed attempt, and the one a RateLimitError reports, is the one that
\* attempt's answer carried.
C25_FailedAttemptUpdatesSnapshot ==
    /\ \A n \in 1..Len(waits) :
         observed[waits[n].afterCall] # NoHeader
            => waits[n].info = Snapshot(observed[waits[n].afterCall])
    /\ ( outcome.type = "RateLimitError" /\ observed[calls] # NoHeader )
            => outcome.snapshot = Snapshot(observed[calls])

-----------------------------------------------------------------------------
(* Claims about what a set removes *)

\* the sum of the sizes of a set of entries
RECURSIVE SumOfSizes(_)
SumOfSizes(entries) ==
    IF entries = {} THEN 0
    ELSE LET e == CHOOSE x \in entries : TRUE
         IN e.size + SumOfSizes(entries \ {e})

\* the memory in use when a set began that went on to evict
UsageBefore(rounds) == SumOfSizes(rounds[1].evicted) + getMemoryUsage(rounds[1].survivors)

\* C23: a set removes no more entries than the budgets require; a set that
\* overwrites a key already present (here: the set just made, repeated), in
\* a cache within its memory budget, removes no entry.
C23_OverwriteRemovesNothing ==
    ( /\ hist.op = "set"
      /\ hist.repeat
      /\ hist.rounds # <<>> )
    => UsageBefore(hist.rounds) > options.maxMemoryBytes

\* after warmup() the n-th warmup key was inserted n-th, and any other key
\* after all of them
InsertionIndex(key) ==
    IF \E n \in 1..options.maxSize : WarmKey(n) = key
    THEN CHOOSE n \in 1..options.maxSize : WarmKey(n) = key
    ELSE options.maxSize + 1

\* C24: under FIFO every entry an eviction round removes was inserted no
\* later than every entry it spares, whatever the TTLs and the get hits.
C24_FifoEvictsOldestInserted ==
    options.policy = "FIFO" =>
        \A n \in 1..Len(hist.rounds) :
            \A e \in hist.rounds[n].evicted, s \in Range(hist.rounds[n].survivors) :
                InsertionIndex(e.key) <= InsertionIndex(s.key)

PendingFlushes == { k \in 1..Len(inflight) : requests[inflight[k].request].state = "pending" }

\* C26: while the combined request of one flush is in flight no second flush
\* is started: at most one processBatch call awaits a request that has not
\* been answered, and items submitted during a flush stay queued until it
\* has completed.
C26_OneFlushInFlight ==
    /\ Cardinality(PendingFlushes) <= 1
    /\ PendingFlushes # {} => Len(inflight) = 1

FlushesWhenFull ==
    ( /\ Len(settled') = Len(settled) + 1
      /\ Len(batchQueue) + 1 >= BatchOptions.maxBatchSize )
    => ( /\ Len(inflight') = Len(inflight) + 1
         /\ batchQueue' = <<>>
         /\ timers' = {}
         /\ batchTimer' = NoBatchTimer )

\* C27: a submission that brings the queue to maxBatchSize flushes at once and
\* cancels the pending flush timer; and after every submission the queue holds
\* fewer than maxBatchSize items, at most one flush timer is armed, it is the
\* one batchTimer holds, and a timer is armed whenever the queue is non-empty.
C27_FlushWhenFullAndOneTimer ==
    /\ [][FlushesWhenFull]_vars
    /\ [](/\ Len(batchQueue) < BatchOptions.maxBatchSize
          /\ Cardinality(timers) <= 1
          /\ timers \subseteq {batchTimer}
          /\ batchQueue # <<>> => timers # {})

\* C27 witness: the second submission filled the queue while the timer of the
\* first was armed, its flush is in flight with both items and cancelled that
\* timer, and a third submission is queued with a timer of its own
C27_Witness ==
    /\ \E k \in 1..Len(inflight) : inflight[k].items = <<1, 2>>
    /\ batchQueue = <<3>>
    /\ timers = {3}
    /\ batchTimer = 3

====
